---- MODULE Spec2Model ----
(***************************************************************************)
(* LoadEnv (src/main.py): a facade over the Infisical SDK client with a    *)
(* cachetools.TTLCache(maxsize=100, ttl=3600) keyed by                     *)
(* "project:environment:path:name".                                        *)
(*                                                                         *)
(* Python strings are modelled as sequences of one-character strings, so   *)
(* that f-string concatenation and str.startswith are computed on the      *)
(* characters.  None and "" are both the empty sequence: the code only     *)
(* ever tests them for truthiness (`x or default`, `not x`).               *)
(*                                                                         *)
(* Every coroutine is cut at the points where something else can happen:   *)
(* at its `await` (other coroutines run) and, in get, between the          *)
(* membership test of line 110 and the subscript of line 112 (the cache's  *)
(* timer is read once by each).                                            *)
(***************************************************************************)
EXTENDS Integers, Sequences, FiniteSets, TLC

VARIABLES inst, cache, now, pc, op, result, remoteCalls, reply, remote

vars == <<inst, cache, now, pc, op, result, remoteCalls, reply, remote>>

----------------------------------------------------------------------------
(* Bounds of the model *)

\* the clock of SpecTTL stops at MaxNow
MaxNow == 7200
\* remote calls issued in one behaviour
MaxCalls == 2
\* records in a remote listing
MaxList == 2
\* distinct secret names read in SpecCap
MaxCapKeys == 102

----------------------------------------------------------------------------
(* Strings *)

Empty == <<>>
Colon == <<":">>
Slash == <<"/">>

\* Python's `a or b` on strings / None
Or(a, b) == IF a # Empty THEN a ELSE b

\* the parameter `env: Environment = "dev"` of every operation: the
\* argument, or "dev" when the caller passes none (Empty; "" is not an
\* Environment)
Environment(env) == IF env = Empty THEN <<"d", "e", "v">> ELSE env

\* str.startswith
startswith(k, prefix) ==
    /\ Len(prefix) <= Len(k)
    /\ SubSeq(k, 1, Len(prefix)) = prefix

dev == <<"d", "e", "v">>
prod == <<"p", "r", "o", "d">>
ProjP == <<"P">>
ProjQ == <<"Q">>
PathA == <<"/", "a">>
NameA == <<"A">>
NameB == <<"B">>
Values == {"v1", "v2"}

\* pydantic.SecretStr(v): a wrapper object around v
SecretStr(v) == <<"SecretStr", v>>

----------------------------------------------------------------------------
(* cachetools.TTLCache, as LoadEnv uses it.  The cache is the sequence of  *)
(* its links, oldest first; a link is [key, value, expires].               *)

\* TTLCache(maxsize=100, ttl=3600)
maxsize == 100
ttl == 3600

\* TTLCache.expire(time): unlink from the head while not (time < expires)
RECURSIVE TTLCache_expire(_, _)
TTLCache_expire(c, time) ==
    IF c # <<>> /\ ~(time < Head(c).expires)
    THEN TTLCache_expire(Tail(c), time)
    ELSE c

\* TTLCache.popitem(): expire, then drop the oldest link
TTLCache_popitem(c, time) == Tail(TTLCache_expire(c, time))

\* mutant of Cache_evict: a store that never makes room
Cache_evict_never(c, time) == c

\* Cache.__setitem__: `while currsize + size > maxsize: self.popitem()`
RECURSIVE Cache_evict(_, _)
Cache_evict(c, time) ==
    IF Len(c) + 1 > maxsize THEN Cache_evict(TTLCache_popitem(c, time), time) ELSE c

HasKey(c, k) == \E i \in 1..Len(c) : c[i].key = k

\* mutant of TTLCache_contains: an entry still counts at its expiry time
TTLCache_contains_at_expiry(c, k, time) ==
    \E i \in 1..Len(c) : c[i].key = k /\ time <= c[i].expires

\* TTLCache.__contains__: the link exists and timer() < link.expires
TTLCache_contains(c, k, time) ==
    \E i \in 1..Len(c) : c[i].key = k /\ time < c[i].expires

\* TTLCache.__getitem__: KeyError (via __missing__) when absent or expired
TTLCache_getitem(c, k, time) ==
    IF TTLCache_contains(c, k, time)
    THEN [ok |-> TRUE, value |-> (CHOOSE e \in {c[i] : i \in 1..Len(c)} : e.key = k).value]
    ELSE [ok |-> FALSE, value |-> <<"KeyError">>]

\* TTLCache.__setitem__: expire, make room for a new key, store, and move
\* the key's link to the end with expires = time + ttl
TTLCache_setitem(c, k, v, time) ==
    LET c1 == TTLCache_expire(c, time)
        c2 == IF HasKey(c1, k) THEN c1 ELSE Cache_evict(c1, time)
        c3 == SelectSeq(c2, LAMBDA e : e.key # k)
    IN  Append(c3, [key |-> k, value |-> v, expires |-> time + ttl])

\* TTLCache.__iter__ (behind .keys()): the keys whose link has not expired
TTLCache_keys(c, time) ==
    {c[i].key : i \in {j \in 1..Len(c) : time < c[j].expires}}

\* TTLCache.__delitem__ for each key of ks (all of them unexpired at time)
TTLCache_delitems(c, ks) == SelectSeq(c, LAMBDA e : e.key \notin ks)

----------------------------------------------------------------------------
(* LoadEnv helpers *)

\* mutant of _key: the path is left out of the key
_key_without_path(project_id, environment, path) ==
    project_id \o Colon \o environment

\* LoadEnv._key
_key(project_id, environment, path) ==
    project_id \o Colon \o environment \o Colon \o path

\* mutant of cache_key: the key is built from the path sent to the remote
cache_key_with_resolved_path(project_id, env, path, key) ==
    _key(project_id, env, Or(path, Slash)) \o Colon \o key

\* get, line 107: f"{self._key(project_id, env, path)}:{key}"
cache_key(project_id, env, path, key) ==
    _key(project_id, env, path) \o Colon \o key

\* mutant of InvalidatePrefix: the prefix ends with the delimiter, so that it
\* matches the keys of that one path only
InvalidatePrefix_of_one_path(c, cache_prefix, time) ==
    LET keys_to_remove ==
            {k \in TTLCache_keys(c, time) : startswith(k, cache_prefix \o Colon)}
    IN  TTLCache_delitems(c, keys_to_remove)

\* one pass of the invalidation loop (lines 303-306, 376-379)
InvalidatePrefix(c, cache_prefix, time) ==
    LET keys_to_remove == {k \in TTLCache_keys(c, time) : startswith(k, cache_prefix)}
    IN  TTLCache_delitems(c, keys_to_remove)

\* mutant of Invalidate: only the resolved path is purged
Invalidate_resolved_path_only(c, project_id, env, path, secret_path, time) ==
    InvalidatePrefix(c, _key(project_id, env, Or(path, secret_path)), time)

\* paths_to_invalidate = [path or self.secret_path, ""], in that order
Invalidate(c, project_id, env, path, secret_path, time) ==
    LET c1 == InvalidatePrefix(c, _key(project_id, env, Or(path, secret_path)), time)
    IN  InvalidatePrefix(c1, _key(project_id, env, Empty), time)

----------------------------------------------------------------------------
(* Inputs *)

Tasks == {"t1"}

\* (project, env, path, name) arguments of get, create_secret, update_secret
\* and secret_by_name; an Empty project, env or path is "not given"
Targets ==
    { <<Empty, Empty, Empty, NameA>>, <<Empty, dev, Empty, NameB>>,
      <<Empty, dev, Slash, NameA>>, <<Empty, dev, PathA, NameA>>,
      <<ProjQ, dev, Empty, NameA>>, <<Empty, prod, Empty, NameA>> }

\* (project, env, path) arguments of get_all and list_secrets
BulkScopes == { <<Empty, Empty, Empty>>, <<ProjQ, prod, PathA>> }

\* arguments of secret_by_name
RecordTargets == { <<Empty, Empty, Empty, NameA>>, <<ProjQ, dev, PathA, NameB>> }

\* (client_id, client_secret) overrides of get: none, or a client_id alone
NoCredentials == <<Empty, Empty>>
Credentials == { NoCredentials, <<<<"id2">>, Empty>> }

\* get with overridden credentials is tried on the first secret
GetInputs ==
    { <<a, c>> \in Targets \X Credentials :
         c # NoCredentials => a = <<Empty, Empty, Empty, NameA>> }

\* the flags of list_secrets: as defaulted by the signature, or overridden
DefaultFlags ==
    [expand_secret_references |-> TRUE, view_secret_value |-> TRUE,
     recursive |-> FALSE, include_imports |-> TRUE, tag_filters |-> Empty]
ListFlags ==
    { DefaultFlags,
      [expand_secret_references |-> FALSE, view_secret_value |-> FALSE,
       recursive |-> TRUE, include_imports |-> FALSE, tag_filters |-> <<"tag">>] }

----------------------------------------------------------------------------
(* The remote service: what an awaited SDK call can come back with *)

RemoteError == [status |-> "error"]
Cancelled == [status |-> "cancelled"]

\* get_secret_by_name(secret_name=name, ...)
SecretReplies(name) ==
    { [status |-> "ok", payload |-> [secret_key |-> name, secret_value |-> v]] : v \in Values }
        \cup {RemoteError, Cancelled}

\* records of a listing: a complete one, one without a secret_value and
\* one without a secret_key
ListRecords ==
    { [secret_key |-> NameA, secret_value |-> "v1"],
      [secret_key |-> NameB],
      [secret_value |-> "v2"] }

RECURSIVE SeqsUpTo(_, _)
SeqsUpTo(S, n) ==
    IF n = 0 THEN {<<>>}
    ELSE LET shorter == SeqsUpTo(S, n - 1)
         IN  shorter \cup {Append(q, x) : q \in shorter, x \in S}

\* list_secrets(...)
ListReplies ==
    { [status |-> "ok", payload |-> l] : l \in SeqsUpTo(ListRecords, MaxList) }
        \cup {RemoteError, Cancelled}

\* create_secret_by_name(...): the created-record descriptor
CreateReplies(name) ==
    { [status |-> "ok", payload |-> [id |-> "secret_123", name |-> name]],
      RemoteError, Cancelled }

\* update_secret_by_name(...): the facade ignores what it returns
UpdateReplies == { [status |-> "ok", payload |-> Empty], RemoteError, Cancelled }

----------------------------------------------------------------------------
(* State *)

NoOp == [kind |-> "none"]
NoResult == [status |-> "none"]
\* no awaited call has come back yet
NoReply == [status |-> "none"]
Returned(kind, v) == [status |-> "returned", kind |-> kind, value |-> v]
Raised(kind, e) == [status |-> "raised", kind |-> kind, error |-> e]

\* the remote's content of a secret where the model does not follow it:
\* the replies are then any the remote can send
Unobserved == "unobserved"

\* what `raise` re-raises after the `await` came back with r
ErrorOf(r) == IF r.status = "cancelled" THEN "CancelledError" ELSE "RemoteError"

\* os.getenv(name, default) on the process environment, a record of the
\* variables that are set
getenv(environ, name, default) ==
    IF name \in DOMAIN environ THEN environ[name] ELSE default

\* _SDK(client_id=..., client_secret=...): the SDK client object; owner tells
\* the instance's client from one made for a single call
_SDK(client_id, client_secret, owner) ==
    [client_id |-> client_id, client_secret |-> client_secret, owner |-> owner]

\* __init__, lines 46-66: the attributes of a LoadEnv whose construction
\* succeeded
LoadEnv(machine_identity_client_id, machine_identity_client_secret, environ) ==
    LET _default_client_id ==
            Or(machine_identity_client_id, getenv(environ, "INFISICAL_MACHINE_ID", Empty))
        _default_client_secret ==
            Or(machine_identity_client_secret, getenv(environ, "INFISICAL_SECRET_KEY", Empty))
    IN  [project_id |-> getenv(environ, "INFISICAL_PROJECT_ID", Empty),
         environment_slug |-> getenv(environ, "INFISICAL_ENVIRONMENT", dev),
         secret_path |-> getenv(environ, "INFISICAL_SECRET_PATH", Slash),
         default_client_id |-> _default_client_id,
         default_client_secret |-> _default_client_secret,
         client |-> _SDK(_default_client_id, _default_client_secret, "instance")]

\* the process environments: credentials and a secret path but no project;
\* credentials, a project and an environment but no secret path
Environs ==
    { [INFISICAL_MACHINE_ID |-> <<"id1">>, INFISICAL_SECRET_KEY |-> <<"secret1">>,
       INFISICAL_SECRET_PATH |-> PathA],
      [INFISICAL_MACHINE_ID |-> <<"id1">>, INFISICAL_SECRET_KEY |-> <<"secret1">>,
       INFISICAL_PROJECT_ID |-> ProjP, INFISICAL_ENVIRONMENT |-> prod] }

\* the instances LoadEnv() constructs in those environments
Instances == { LoadEnv(Empty, Empty, environ) : environ \in Environs }

Init ==
    /\ inst \in Instances
    /\ cache = <<>>
    /\ now = 0
    /\ pc = [t \in Tasks |-> "idle"]
    /\ op = [t \in Tasks |-> NoOp]
    /\ result = [t \in Tasks |-> NoResult]
    /\ remoteCalls = 0
    /\ reply = [t \in Tasks |-> NoReply]
    /\ remote = Unobserved

\* mutant of ResolveProject: the environment slug stands in for a missing project
ResolveProject_or_environment(project, self) ==
    Or(Or(project, self.project_id), self.environment_slug)

\* project_id = project or self.project_id
ResolveProject(project, self) == Or(project, self.project_id)

\* `if not project_id: raise ValueError(...)`, the first statement of every operation
MissingProject(t, call) ==
    /\ result' = [result EXCEPT ![t] = [status |-> "raised", kind |-> call.kind,
                                        error |-> "ValueError", call |-> call]]
    /\ UNCHANGED <<inst, cache, now, pc, op, remoteCalls, reply, remote>>

\* mutant of Await: the SDK object the call uses becomes the instance's
Await_retaining_sdk(t, call, request) ==
    /\ remoteCalls' = remoteCalls + 1
    /\ pc' = [pc EXCEPT ![t] = "await"]
    /\ op' = [op EXCEPT ![t] = [call EXCEPT !.request = request]]
    /\ result' = [result EXCEPT ![t] = NoResult]
    /\ reply' = [reply EXCEPT ![t] = NoReply]
    /\ inst' = [inst EXCEPT !.client = request.sdk,
                            !.default_client_id = request.sdk.client_id,
                            !.default_client_secret = request.sdk.client_secret]
    /\ UNCHANGED <<cache, now, remote>>

\* mutant of Await: one remote call at a time, the others wait for it
Await_exclusive(t, call, request) ==
    /\ \A u \in DOMAIN pc : pc[u] # "await"
    /\ remoteCalls' = remoteCalls + 1
    /\ pc' = [pc EXCEPT ![t] = "await"]
    /\ op' = [op EXCEPT ![t] = [call EXCEPT !.request = request]]
    /\ result' = [result EXCEPT ![t] = NoResult]
    /\ reply' = [reply EXCEPT ![t] = NoReply]
    /\ UNCHANGED <<inst, cache, now, remote>>

\* the operation reaches its `await`: one remote call is issued
Await(t, call, request) ==
    /\ remoteCalls' = remoteCalls + 1
    /\ pc' = [pc EXCEPT ![t] = "await"]
    /\ op' = [op EXCEPT ![t] = [call EXCEPT !.request = request]]
    /\ result' = [result EXCEPT ![t] = NoResult]
    /\ reply' = [reply EXCEPT ![t] = NoReply]
    /\ UNCHANGED <<inst, cache, now, remote>>

\* the operation ends: it returns or raises
Finish(t, res) ==
    /\ pc' = [pc EXCEPT ![t] = "idle"]
    /\ op' = [op EXCEPT ![t] = NoOp]
    /\ result' = [result EXCEPT ![t] = res]
    /\ UNCHANGED <<inst, now, remoteCalls, remote>>

\* the SDK object get uses (lines 118-124)
SdkFor(client_id, client_secret, self) ==
    IF client_id # Empty \/ client_secret # Empty
    THEN _SDK(Or(client_id, self.default_client_id),
              Or(client_secret, self.default_client_secret), "call")
    ELSE self.client

----------------------------------------------------------------------------
(* get (lines 76-141) *)

\* mutant of get: the cache is not consulted
get_without_lookup(t, key, project, env, path, client_id, client_secret) ==
    LET call == [kind |-> "get", key |-> key, project |-> project,
                 env |-> Environment(env), env_arg |-> env, path |-> path, client_id |-> client_id,
                 client_secret |-> client_secret, request |-> Empty]
        project_id == ResolveProject(project, inst)
    IN  /\ pc[t] = "idle"
        /\ IF project_id = Empty
           THEN MissingProject(t, call)
           ELSE Await(t, call,
                      [api |-> "get_secret_by_name",
                       sdk |-> SdkFor(client_id, client_secret, inst),
                       secret_name |-> key,
                       project_id |-> project_id,
                       environment_slug |-> call.env,
                       secret_path |-> Or(path, inst.secret_path)])

\* mutant of get: a call with a credentials override does not consult the
\* cache
get_bypassing_cache_on_override(t, key, project, env, path, client_id, client_secret) ==
    LET call == [kind |-> "get", key |-> key, project |-> project,
                 env |-> Environment(env), env_arg |-> env, path |-> path, client_id |-> client_id,
                 client_secret |-> client_secret, request |-> Empty]
        project_id == ResolveProject(project, inst)
    IN  /\ pc[t] = "idle"
        /\ IF project_id = Empty
           THEN MissingProject(t, call)
           ELSE IF /\ client_id = Empty
                   /\ client_secret = Empty
                   /\ TTLCache_contains(cache, cache_key(project_id, call.env, path, key), now)
                THEN /\ pc' = [pc EXCEPT ![t] = "hit"]
                     /\ op' = [op EXCEPT ![t] = call]
                     /\ result' = [result EXCEPT ![t] = NoResult]
                     /\ UNCHANGED <<inst, cache, now, remoteCalls, reply, remote>>
                ELSE Await(t, call,
                           [api |-> "get_secret_by_name",
                            sdk |-> SdkFor(client_id, client_secret, inst),
                            secret_name |-> key,
                            project_id |-> project_id,
                            environment_slug |-> call.env,
                            secret_path |-> Or(path, inst.secret_path)])

\* lines 103-132: resolve the project, look the key up, and on a miss call
\* get_secret_by_name on the instance's SDK or on a transient one
get(t, key, project, env, path, client_id, client_secret) ==
    LET call == [kind |-> "get", key |-> key, project |-> project,
                 env |-> Environment(env), env_arg |-> env, path |-> path, client_id |-> client_id,
                 client_secret |-> client_secret, request |-> Empty]
        project_id == ResolveProject(project, inst)
    IN  /\ pc[t] = "idle"
        /\ IF project_id = Empty
           THEN MissingProject(t, call)
           ELSE IF TTLCache_contains(cache, cache_key(project_id, call.env, path, key), now)
                THEN /\ pc' = [pc EXCEPT ![t] = "hit"]
                     /\ op' = [op EXCEPT ![t] = call]
                     /\ result' = [result EXCEPT ![t] = NoResult]
                     /\ UNCHANGED <<inst, cache, now, remoteCalls, reply, remote>>
                ELSE Await(t, call,
                           [api |-> "get_secret_by_name",
                            sdk |-> SdkFor(client_id, client_secret, inst),
                            secret_name |-> key,
                            project_id |-> project_id,
                            environment_slug |-> call.env,
                            secret_path |-> Or(path, inst.secret_path)])

\* mutant of CacheKeyOf: the key names the path the remote call used
CacheKeyOf_fetched_path(call, self) ==
    cache_key(ResolveProject(call.project, self), call.env,
              Or(call.path, self.secret_path), call.key)

\* the key get computed at line 107
CacheKeyOf(call, self) ==
    cache_key(ResolveProject(call.project, self), call.env, call.path, call.key)

\* line 112: return self._cache[cache_key]
get_hit(t) ==
    /\ pc[t] = "hit"
    /\ LET item == TTLCache_getitem(cache, CacheKeyOf(op[t], inst), now)
       IN  Finish(t, IF item.ok THEN Returned("get", item.value) ELSE Raised("get", "KeyError"))
    /\ UNCHANGED <<cache, reply>>

\* mutant of get_resume: the fetched value is returned but not stored
get_resume_without_store(t, r) ==
    /\ pc[t] = "await"
    /\ op[t].kind = "get"
    /\ r \in SecretReplies(op[t].key)
    /\ reply' = [reply EXCEPT ![t] = r]
    /\ UNCHANGED cache
    /\ Finish(t, IF r.status = "ok"
                 THEN Returned("get", SecretStr(r.payload.secret_value))
                 ELSE Raised("get", ErrorOf(r)))

\* mutant of get_resume: a failure is stored under the key
get_resume_caching_failure(t, r) ==
    /\ pc[t] = "await"
    /\ op[t].kind = "get"
    /\ r \in SecretReplies(op[t].key)
    /\ reply' = [reply EXCEPT ![t] = r]
    /\ IF r.status = "ok"
       THEN LET value == SecretStr(r.payload.secret_value)
            IN  /\ cache' = TTLCache_setitem(cache, CacheKeyOf(op[t], inst), value, now)
                /\ Finish(t, Returned("get", value))
       ELSE /\ cache' = TTLCache_setitem(cache, CacheKeyOf(op[t], inst),
                                         SecretStr(ErrorOf(r)), now)
            /\ Finish(t, Raised("get", ErrorOf(r)))

\* mutant of get_resume: a key that is already cached keeps its value
get_resume_first_write_wins(t, r) ==
    /\ pc[t] = "await"
    /\ op[t].kind = "get"
    /\ r \in SecretReplies(op[t].key)
    /\ reply' = [reply EXCEPT ![t] = r]
    /\ IF r.status = "ok"
       THEN LET value == SecretStr(r.payload.secret_value)
            IN  /\ cache' = IF TTLCache_contains(cache, CacheKeyOf(op[t], inst), now)
                            THEN cache
                            ELSE TTLCache_setitem(cache, CacheKeyOf(op[t], inst), value, now)
                /\ Finish(t, Returned("get", value))
       ELSE /\ UNCHANGED cache
            /\ Finish(t, Raised("get", ErrorOf(r)))

\* mutant of get_resume: the fetched value only replaces an entry that is
\* (still) in the cache
get_resume_replacing_only(t, r) ==
    /\ pc[t] = "await"
    /\ op[t].kind = "get"
    /\ r \in SecretReplies(op[t].key)
    /\ reply' = [reply EXCEPT ![t] = r]
    /\ IF r.status = "ok"
       THEN LET value == SecretStr(r.payload.secret_value)
            IN  /\ cache' = IF TTLCache_contains(cache, CacheKeyOf(op[t], inst), now)
                            THEN TTLCache_setitem(cache, CacheKeyOf(op[t], inst), value, now)
                            ELSE cache
                /\ Finish(t, Returned("get", value))
       ELSE /\ UNCHANGED cache
            /\ Finish(t, Raised("get", ErrorOf(r)))

\* lines 134-141: the await of line 127 came back with r
get_resume(t, r) ==
    /\ pc[t] = "await"
    /\ op[t].kind = "get"
    /\ r \in SecretReplies(op[t].key)
    /\ reply' = [reply EXCEPT ![t] = r]
    /\ IF r.status = "ok"
       THEN LET value == SecretStr(r.payload.secret_value)
            IN  /\ cache' = TTLCache_setitem(cache, CacheKeyOf(op[t], inst), value, now)
                /\ Finish(t, Returned("get", value))
       ELSE /\ UNCHANGED cache
            /\ Finish(t, Raised("get", ErrorOf(r)))

----------------------------------------------------------------------------
(* get_all (lines 143-191) and list_secrets (lines 193-246) *)

\* mutant of ListRequest: the instance's environment_slug is sent
ListRequest_instance_environment(project_id, env, path, flags, self) ==
    [api |-> "list_secrets", sdk |-> self.client,
     project_id |-> project_id, environment_slug |-> self.environment_slug,
     secret_path |-> Or(path, self.secret_path),
     expand_secret_references |-> flags.expand_secret_references,
     view_secret_value |-> flags.view_secret_value,
     recursive |-> flags.recursive,
     include_imports |-> flags.include_imports,
     tag_filters |-> Or(flags.tag_filters, Empty)]

\* the keyword arguments of self.client.secrets.list_secrets (lines 170-179,
\* 230-239)
ListRequest(project_id, env, path, flags, self) ==
    [api |-> "list_secrets", sdk |-> self.client,
     project_id |-> project_id, environment_slug |-> env,
     secret_path |-> Or(path, self.secret_path),
     expand_secret_references |-> flags.expand_secret_references,
     view_secret_value |-> flags.view_secret_value,
     recursive |-> flags.recursive,
     include_imports |-> flags.include_imports,
     tag_filters |-> Or(flags.tag_filters, Empty)]

get_all(t, project, env, path) ==
    LET call == [kind |-> "get_all", project |-> project,
                 env |-> Environment(env), env_arg |-> env, path |-> path, request |-> Empty]
        project_id == ResolveProject(project, inst)
    IN  /\ pc[t] = "idle"
        /\ IF project_id = Empty
           THEN MissingProject(t, call)
           ELSE Await(t, call, ListRequest(project_id, call.env, path, DefaultFlags, inst))

\* mutant of BuildMapping: a record needs only a secret_key to be taken
RECURSIVE BuildMapping_key_only(_, _)
BuildMapping_key_only(secrets_list, acc) ==
    IF secrets_list = <<>> THEN acc
    ELSE LET secret == Head(secrets_list)
             next == IF "secret_key" \in DOMAIN secret
                     THEN [k \in DOMAIN acc \cup {secret.secret_key} |->
                             IF k = secret.secret_key
                             THEN IF "secret_value" \in DOMAIN secret
                                  THEN SecretStr(secret.secret_value)
                                  ELSE SecretStr("")
                             ELSE acc[k]]
                     ELSE acc
         IN  BuildMapping_key_only(Tail(secrets_list), next)

\* lines 181-184: result[secret.secret_key] = SecretStr(secret.secret_value)
\* for the records that have both attributes, in order
RECURSIVE BuildMapping(_, _)
BuildMapping(secrets_list, acc) ==
    IF secrets_list = <<>> THEN acc
    ELSE LET secret == Head(secrets_list)
             next == IF "secret_key" \in DOMAIN secret /\ "secret_value" \in DOMAIN secret
                     THEN [k \in DOMAIN acc \cup {secret.secret_key} |->
                             IF k = secret.secret_key
                             THEN SecretStr(secret.secret_value) ELSE acc[k]]
                     ELSE acc
         IN  BuildMapping(Tail(secrets_list), next)

get_all_resume(t, r) ==
    /\ pc[t] = "await"
    /\ op[t].kind = "get_all"
    /\ r \in ListReplies
    /\ reply' = [reply EXCEPT ![t] = r]
    /\ Finish(t, IF r.status = "ok"
                 THEN Returned("get_all", BuildMapping(r.payload, <<>>))
                 ELSE Raised("get_all", ErrorOf(r)))
    /\ UNCHANGED cache

list_secrets(t, project, env, path, flags) ==
    LET call == [kind |-> "list_secrets", project |-> project,
                 env |-> Environment(env), env_arg |-> env, path |-> path, flags |-> flags, request |-> Empty]
        project_id == ResolveProject(project, inst)
    IN  /\ pc[t] = "idle"
        /\ IF project_id = Empty
           THEN MissingProject(t, call)
           ELSE Await(t, call, ListRequest(project_id, call.env, path, flags, inst))

list_secrets_resume(t, r) ==
    /\ pc[t] = "await"
    /\ op[t].kind = "list_secrets"
    /\ r \in ListReplies
    /\ reply' = [reply EXCEPT ![t] = r]
    /\ Finish(t, IF r.status = "ok" THEN Returned("list_secrets", r.payload) ELSE Raised("list_secrets", ErrorOf(r)))
    /\ UNCHANGED cache

----------------------------------------------------------------------------
(* create_secret (lines 248-313) and update_secret (lines 315-385) *)

\* mutant of create_secret: nothing is sent when the secret is in the cache
create_secret_checking_cache(t, secret_name, secret_value, project, env, path) ==
    LET call == [kind |-> "create_secret", key |-> secret_name,
                 secret_value |-> secret_value, project |-> project,
                 env |-> Environment(env), env_arg |-> env, path |-> path, request |-> Empty]
        project_id == ResolveProject(project, inst)
    IN  /\ pc[t] = "idle"
        /\ IF project_id = Empty
           THEN MissingProject(t, call)
           ELSE IF TTLCache_contains(cache, cache_key(project_id, call.env, path, secret_name), now)
                THEN /\ Finish(t, Returned("create_secret", Empty))
                     /\ UNCHANGED <<cache, reply>>
                ELSE Await(t, call,
                           [api |-> "create_secret_by_name", sdk |-> inst.client,
                            secret_name |-> secret_name, secret_value |-> secret_value,
                            project_id |-> project_id, environment_slug |-> call.env,
                            secret_path |-> Or(path, inst.secret_path)])

\* lines 280-297: resolve the project and call create_secret_by_name
create_secret(t, secret_name, secret_value, project, env, path) ==
    LET call == [kind |-> "create_secret", key |-> secret_name,
                 secret_value |-> secret_value, project |-> project,
                 env |-> Environment(env), env_arg |-> env, path |-> path, request |-> Empty]
        project_id == ResolveProject(project, inst)
    IN  /\ pc[t] = "idle"
        /\ IF project_id = Empty
           THEN MissingProject(t, call)
           ELSE Await(t, call,
                      [api |-> "create_secret_by_name", sdk |-> inst.client,
                       secret_name |-> secret_name, secret_value |-> secret_value,
                       project_id |-> project_id, environment_slug |-> call.env,
                       secret_path |-> Or(path, inst.secret_path)])

\* the cache after the invalidation loop of a write (lines 301-306, 374-379)
InvalidateFor(call, c, self, time) ==
    Invalidate(c, ResolveProject(call.project, self), call.env, call.path,
               self.secret_path, time)

\* mutant of create_secret_resume: the invalidation runs whatever the outcome
create_secret_resume_always_invalidating(t, r) ==
    /\ pc[t] = "await"
    /\ op[t].kind = "create_secret"
    /\ r \in CreateReplies(op[t].key)
    /\ reply' = [reply EXCEPT ![t] = r]
    /\ cache' = InvalidateFor(op[t], cache, inst, now)
    /\ Finish(t, IF r.status = "ok"
                 THEN Returned("create_secret", r.payload)
                 ELSE Raised("create_secret", ErrorOf(r)))

create_secret_resume(t, r) ==
    /\ pc[t] = "await"
    /\ op[t].kind = "create_secret"
    /\ r \in CreateReplies(op[t].key)
    /\ reply' = [reply EXCEPT ![t] = r]
    /\ IF r.status = "ok"
       THEN /\ cache' = InvalidateFor(op[t], cache, inst, now)
            /\ Finish(t, Returned("create_secret", r.payload))
       ELSE /\ UNCHANGED cache
            /\ Finish(t, Raised("create_secret", ErrorOf(r)))

update_secret(t, current_secret_name, secret_value, project, env, path, new_secret_name) ==
    LET call == [kind |-> "update_secret", key |-> current_secret_name,
                 secret_value |-> secret_value, project |-> project,
                 env |-> Environment(env), env_arg |-> env, path |-> path,
                 new_secret_name |-> new_secret_name,
                 request |-> Empty]
        project_id == ResolveProject(project, inst)
    IN  /\ pc[t] = "idle"
        /\ IF project_id = Empty
           THEN MissingProject(t, call)
           ELSE Await(t, call,
                      [api |-> "update_secret_by_name", sdk |-> inst.client,
                       current_secret_name |-> current_secret_name,
                       project_id |-> project_id, environment_slug |-> call.env,
                       secret_path |-> Or(path, inst.secret_path),
                       secret_value |-> secret_value,
                       new_secret_name |-> new_secret_name])

\* mutant of update_secret_resume: a rename also purges every key that ends
\* with the new name
update_secret_resume_purging_new_name(t, r) ==
    /\ pc[t] = "await"
    /\ op[t].kind = "update_secret"
    /\ r \in UpdateReplies
    /\ reply' = [reply EXCEPT ![t] = r]
    /\ IF r.status = "ok"
       THEN LET suffix == Colon \o op[t].new_secret_name
                endswith(k) ==
                    /\ Len(suffix) <= Len(k)
                    /\ SubSeq(k, Len(k) - Len(suffix) + 1, Len(k)) = suffix
                c1 == InvalidateFor(op[t], cache, inst, now)
            IN  /\ cache' = IF op[t].new_secret_name # Empty
                            THEN SelectSeq(c1, LAMBDA e : ~endswith(e.key))
                            ELSE c1
                /\ Finish(t, Returned("update_secret", Empty))
       ELSE /\ UNCHANGED cache
            /\ Finish(t, Raised("update_secret", ErrorOf(r)))

\* mutant of update_secret_resume: the new value is written through to the
\* cache after the invalidation
update_secret_resume_write_through(t, r) ==
    /\ pc[t] = "await"
    /\ op[t].kind = "update_secret"
    /\ r \in UpdateReplies
    /\ reply' = [reply EXCEPT ![t] = r]
    /\ IF r.status = "ok"
       THEN /\ cache' = TTLCache_setitem(InvalidateFor(op[t], cache, inst, now),
                                         CacheKeyOf(op[t], inst),
                                         SecretStr(op[t].secret_value), now)
            /\ Finish(t, Returned("update_secret", Empty))
       ELSE /\ UNCHANGED cache
            /\ Finish(t, Raised("update_secret", ErrorOf(r)))

\* lines 372-385: the await of line 357 came back with r
update_secret_resume(t, r) ==
    /\ pc[t] = "await"
    /\ op[t].kind = "update_secret"
    /\ r \in UpdateReplies
    /\ reply' = [reply EXCEPT ![t] = r]
    /\ IF r.status = "ok"
       THEN /\ cache' = InvalidateFor(op[t], cache, inst, now)
            /\ Finish(t, Returned("update_secret", Empty))
       ELSE /\ UNCHANGED cache
            /\ Finish(t, Raised("update_secret", ErrorOf(r)))

----------------------------------------------------------------------------
(* secret_by_name (lines 387-428) *)

\* mutant of secret_by_name: a cached value is served, as in get
secret_by_name_cached(t, secret_name, project, env, path) ==
    LET call == [kind |-> "secret_by_name", key |-> secret_name, project |-> project,
                 env |-> Environment(env), env_arg |-> env, path |-> path, request |-> Empty]
        project_id == ResolveProject(project, inst)
    IN  /\ pc[t] = "idle"
        /\ IF project_id = Empty
           THEN MissingProject(t, call)
           ELSE IF TTLCache_contains(cache, cache_key(project_id, call.env, path, secret_name), now)
                THEN /\ pc' = [pc EXCEPT ![t] = "hit"]
                     /\ op' = [op EXCEPT ![t] = call]
                     /\ result' = [result EXCEPT ![t] = NoResult]
                     /\ UNCHANGED <<inst, cache, now, remoteCalls, reply, remote>>
                ELSE Await(t, call,
                           [api |-> "get_secret_by_name", sdk |-> inst.client,
                            secret_name |-> secret_name,
                            project_id |-> project_id, environment_slug |-> call.env,
                            secret_path |-> Or(path, inst.secret_path)])

secret_by_name(t, secret_name, project, env, path) ==
    LET call == [kind |-> "secret_by_name", key |-> secret_name, project |-> project,
                 env |-> Environment(env), env_arg |-> env, path |-> path, request |-> Empty]
        project_id == ResolveProject(project, inst)
    IN  /\ pc[t] = "idle"
        /\ IF project_id = Empty
           THEN MissingProject(t, call)
           ELSE Await(t, call,
                      [api |-> "get_secret_by_name", sdk |-> inst.client,
                       secret_name |-> secret_name,
                       project_id |-> project_id, environment_slug |-> call.env,
                       secret_path |-> Or(path, inst.secret_path)])

secret_by_name_resume(t, r) ==
    /\ pc[t] = "await"
    /\ op[t].kind = "secret_by_name"
    /\ r \in SecretReplies(op[t].key)
    /\ reply' = [reply EXCEPT ![t] = r]
    /\ Finish(t, IF r.status = "ok" THEN Returned("secret_by_name", r.payload) ELSE Raised("secret_by_name", ErrorOf(r)))
    /\ UNCHANGED cache

----------------------------------------------------------------------------
(* The cache's timer (time.monotonic), read just before and at each        *)
(* multiple of ttl: 0, ttl - 1, ttl, 2 * ttl - 1, ...                      *)

Tick(d) ==
    /\ now + d <= MaxNow
    /\ d = IF now % ttl = 0 THEN ttl - 1 ELSE 1
    /\ now' = now + d
    /\ UNCHANGED <<inst, cache, pc, op, result, remoteCalls, reply, remote>>

----------------------------------------------------------------------------
(* Spec: a caller issues any operations on one instance, in any order, on  *)
(* the secrets of several projects, environments and paths, while the      *)
(* clock stands still                                                      *)

Names == {NameA, NameB}
AllSecretReplies == UNION {SecretReplies(n) : n \in Names}
AllCreateReplies == UNION {CreateReplies(n) : n \in Names}
WriteValues == {"w"}
NewNames == {Empty, NameA}

\* update_secret renames the second secret only, to the name of the others
UpdateInputs ==
    { <<a, n>> \in Targets \X NewNames :
         n # Empty => a = <<Empty, dev, Empty, NameB>> }

\* list_secrets overrides its flags on the first scope only
ListInputs ==
    { <<sc, f>> \in BulkScopes \X ListFlags :
         f # DefaultFlags => sc = <<Empty, Empty, Empty>> }

\* the model stops issuing remote calls after the limit-th
Within(limit) == remoteCalls' <= limit

Next ==
    \/ \E t \in Tasks, g \in GetInputs :
           get(t, g[1][4], g[1][1], g[1][2], g[1][3], g[2][1], g[2][2]) /\ Within(MaxCalls)
    \/ \E t \in Tasks : get_hit(t)
    \/ \E t \in Tasks, r \in AllSecretReplies : get_resume(t, r)
    \/ \E t \in Tasks, s \in BulkScopes :
           get_all(t, s[1], s[2], s[3]) /\ Within(MaxCalls)
    \/ \E t \in Tasks, r \in ListReplies : get_all_resume(t, r)
    \/ \E t \in Tasks, l \in ListInputs :
           list_secrets(t, l[1][1], l[1][2], l[1][3], l[2]) /\ Within(MaxCalls)
    \/ \E t \in Tasks, r \in ListReplies : list_secrets_resume(t, r)
    \/ \E t \in Tasks, a \in Targets, v \in WriteValues :
           create_secret(t, a[4], v, a[1], a[2], a[3]) /\ Within(MaxCalls)
    \/ \E t \in Tasks, r \in AllCreateReplies : create_secret_resume(t, r)
    \/ \E t \in Tasks, u \in UpdateInputs, v \in WriteValues :
           update_secret(t, u[1][4], v, u[1][1], u[1][2], u[1][3], u[2]) /\ Within(MaxCalls)
    \/ \E t \in Tasks, r \in UpdateReplies : update_secret_resume(t, r)
    \/ \E t \in Tasks, a \in RecordTargets :
           secret_by_name(t, a[4], a[1], a[2], a[3]) /\ Within(MaxCalls)
    \/ \E t \in Tasks, r \in AllSecretReplies : secret_by_name_resume(t, r)

Spec == Init /\ [][Next]_vars

----------------------------------------------------------------------------
(* SpecInit: the program constructs its LoadEnv, which can fail in the SDK *)
(* client's constructor, and then uses it as in Spec                       *)

\* no LoadEnv object: before the constructor is called, and after it raised
NotConstructed == [status |-> "not constructed"]
ConstructionFailed == [status |-> "construction failed"]

\* an instance exists: the constructor returned
Constructed == "project_id" \in DOMAIN inst

\* what _SDK(...) comes back with at line 62
SdkOutcomes == {[status |-> "ok"], [status |-> "error"]}

\* the (machine_identity_client_id, machine_identity_client_secret) arguments
ConstructorArgs == { <<Empty, Empty>>, <<<<"id3">>, Empty>> }

\* mutant of __init__: the SDK's failure is logged and swallowed, the
\* instance is left without a client
__init___swallowing_failure(t, machine_identity_client_id, machine_identity_client_secret, environ, sdk) ==
    /\ inst = NotConstructed
    /\ pc[t] = "idle"
    /\ sdk \in SdkOutcomes
    /\ reply' = [reply EXCEPT ![t] = sdk]
    /\ inst' = IF sdk.status = "ok"
               THEN LoadEnv(machine_identity_client_id, machine_identity_client_secret, environ)
               ELSE [LoadEnv(machine_identity_client_id, machine_identity_client_secret,
                             environ) EXCEPT !.client = Empty]
    /\ result' = [result EXCEPT ![t] = Returned("__init__", Empty)]
    /\ UNCHANGED <<cache, now, pc, op, remoteCalls, remote>>

\* LoadEnv(...), lines 44-70: the attributes are set and _SDK(...) is called
\* once; if it raises, __init__ re-raises and no object is returned
__init__(t, machine_identity_client_id, machine_identity_client_secret, environ, sdk) ==
    /\ inst = NotConstructed
    /\ pc[t] = "idle"
    /\ sdk \in SdkOutcomes
    /\ reply' = [reply EXCEPT ![t] = sdk]
    /\ IF sdk.status = "ok"
       THEN /\ inst' = LoadEnv(machine_identity_client_id, machine_identity_client_secret,
                               environ)
            /\ result' = [result EXCEPT ![t] = Returned("__init__", Empty)]
       ELSE /\ inst' = ConstructionFailed
            /\ result' = [result EXCEPT ![t] = Raised("__init__", "SdkError")]
    /\ UNCHANGED <<cache, now, pc, op, remoteCalls, remote>>

InitNew ==
    /\ inst = NotConstructed
    /\ cache = <<>>
    /\ now = 0
    /\ pc = [t \in Tasks |-> "idle"]
    /\ op = [t \in Tasks |-> NoOp]
    /\ result = [t \in Tasks |-> NoResult]
    /\ remoteCalls = 0
    /\ reply = [t \in Tasks |-> NoReply]
    /\ remote = Unobserved

\* the methods are called on the object the constructor returned
NextInit ==
    \/ \E t \in Tasks, a \in ConstructorArgs, environ \in Environs, sdk \in SdkOutcomes :
           __init__(t, a[1], a[2], environ, sdk)
    \/ Constructed /\ Next

SpecInit == InitNew /\ [][NextInit]_vars

----------------------------------------------------------------------------
(* SpecCap: one project, environment and path, and more distinct secret    *)
(* names than the cache has room for.  The clock stands still and every    *)
(* remote call succeeds, so that the cache fills up; the writes come when  *)
(* it has.                                                                 *)

Digit == <<"0", "1", "2", "3", "4", "5", "6", "7", "8", "9">>

\* str(i)
RECURSIVE str(_)
str(i) == IF i < 10 THEN <<Digit[i + 1]>> ELSE Append(str(i \div 10), Digit[(i % 10) + 1])

\* the i-th secret name: "K1", "K2", ...
CapName(i) == <<"K">> \o str(i)

\* construction with INFISICAL_PROJECT_ID set
InitCap ==
    /\ inst \in {i \in Instances : i.project_id = ProjP}
    /\ cache = <<>>
    /\ now = 0
    /\ pc = [t \in Tasks |-> "idle"]
    /\ op = [t \in Tasks |-> NoOp]
    /\ result = [t \in Tasks |-> NoResult]
    /\ remoteCalls = 0
    /\ reply = [t \in Tasks |-> NoReply]
    /\ remote = Unobserved

\* names read: the first one again, or one never read before
CapNames == {CapName(1), CapName(remoteCalls + 1)}

\* writes are issued once the cache is about to be full
NearlyFull == Len(cache) + 1 >= maxsize

NextCap ==
    \/ \E t \in Tasks, n \in CapNames :
           get(t, n, Empty, dev, Empty, Empty, Empty) /\ Within(MaxCapKeys)
    \/ \E t \in Tasks : get_hit(t)
    \/ \E t \in Tasks :
           /\ pc[t] = "await" /\ op[t].kind = "get"
           /\ get_resume(t, [status |-> "ok",
                             payload |-> [secret_key |-> op[t].key, secret_value |-> "v1"]])
    \/ \E t \in Tasks :
           /\ NearlyFull
           /\ create_secret(t, CapName(1), "w", ProjQ, dev, Empty) /\ Within(MaxCapKeys)
    \/ \E t \in Tasks :
           /\ pc[t] = "await" /\ op[t].kind = "create_secret"
           /\ create_secret_resume(t, [status |-> "ok",
                  payload |-> [id |-> "secret_123", name |-> op[t].key]])
    \/ \E t \in Tasks :
           /\ NearlyFull
           /\ update_secret(t, CapName(1), "w", Empty, dev, Empty, Empty) /\ Within(MaxCapKeys)
    \/ \E t \in Tasks : update_secret_resume(t, [status |-> "ok", payload |-> Empty])

SpecCap == InitCap /\ [][NextCap]_vars

----------------------------------------------------------------------------
(* SpecTTL: reads and writes of two paths of one project and environment   *)
(* while the clock advances past the entries' expiry                       *)

TTLTargets == { <<Empty, Empty, Empty, NameA>>, <<Empty, dev, PathA, NameA>> }

NextTTL ==
    \/ \E t \in Tasks, a \in TTLTargets :
           get(t, a[4], a[1], a[2], a[3], Empty, Empty) /\ Within(MaxCalls)
    \/ \E t \in Tasks : get_hit(t)
    \/ \E t \in Tasks, r \in SecretReplies(NameA) : get_resume(t, r)
    \/ \E t \in Tasks, a \in TTLTargets :
           update_secret(t, a[4], "w", a[1], a[2], a[3], Empty) /\ Within(MaxCalls)
    \/ \E t \in Tasks, r \in UpdateReplies : update_secret_resume(t, r)
    \/ \E d \in {1, ttl - 1} : Tick(d)

SpecTTL == InitCap /\ [][NextTTL]_vars

----------------------------------------------------------------------------
(* SpecPair: two coroutines share one instance and work on one secret of   *)
(* its project; each runs until its `await` and resumes when its own call  *)
(* comes back, in any order                                                *)

Callers == {"t1", "t2"}

InitPair ==
    /\ inst \in {i \in Instances : i.project_id = ProjP}
    /\ cache = <<>>
    /\ now = 0
    /\ pc = [t \in Callers |-> "idle"]
    /\ op = [t \in Callers |-> NoOp]
    /\ result = [t \in Callers |-> NoResult]
    /\ remoteCalls = 0
    /\ reply = [t \in Callers |-> NoReply]
    /\ remote = Unobserved

\* the listings the remote sends in SpecPair: none, or one complete record
PairListReplies ==
    { r \in ListReplies :
         r.status = "ok" => r.payload \in {<<>>, <<[secret_key |-> NameA, secret_value |-> "v1"]>>} }

NextPair ==
    \/ \E t \in Callers :
           get(t, NameA, Empty, Empty, Empty, Empty, Empty) /\ Within(MaxCalls)
    \/ \E t \in Callers : get_hit(t)
    \/ \E t \in Callers, r \in SecretReplies(NameA) : get_resume(t, r)
    \/ \E t \in Callers : get_all(t, Empty, Empty, Empty) /\ Within(MaxCalls)
    \/ \E t \in Callers, r \in PairListReplies : get_all_resume(t, r)
    \/ \E t \in Callers :
           list_secrets(t, Empty, Empty, Empty, DefaultFlags) /\ Within(MaxCalls)
    \/ \E t \in Callers, r \in PairListReplies : list_secrets_resume(t, r)
    \/ \E t \in Callers :
           create_secret(t, NameA, "w", Empty, Empty, Empty) /\ Within(MaxCalls)
    \/ \E t \in Callers, r \in CreateReplies(NameA) : create_secret_resume(t, r)
    \/ \E t \in Callers :
           update_secret(t, NameA, "w", Empty, Empty, Empty, Empty) /\ Within(MaxCalls)
    \/ \E t \in Callers, r \in UpdateReplies : update_secret_resume(t, r)
    \/ \E t \in Callers :
           secret_by_name(t, NameA, Empty, Empty, Empty) /\ Within(MaxCalls)
    \/ \E t \in Callers, r \in SecretReplies(NameA) : secret_by_name_resume(t, r)

SpecPair == InitPair /\ [][NextPair]_vars

----------------------------------------------------------------------------
(* SpecRace: two callers read and write one secret of the default scope,   *)
(* and the remote's content of that secret is followed: the remote answers *)
(* a suspended call at some moment between the call and its return, a read *)
(* with the content it has at that moment, a write by taking the new       *)
(* content; the caller resumes with that answer later.  No caller is       *)
(* cancelled.                                                              *)

\* the remote has no secret of that name
Absent == "absent"

InitRace ==
    /\ inst \in {i \in Instances : i.project_id = ProjP}
    /\ cache = <<>>
    /\ now = 0
    /\ pc = [t \in Callers |-> "idle"]
    /\ op = [t \in Callers |-> NoOp]
    /\ result = [t \in Callers |-> NoResult]
    /\ remoteCalls = 0
    /\ reply = [t \in Callers |-> NoReply]
    /\ remote \in {Absent, "v1"}

\* lines 127-132: the remote answers the get_secret_by_name of a suspended
\* get with the secret as it is now, or with an error
get_served(t) ==
    /\ pc[t] = "await"
    /\ op[t].kind = "get"
    /\ reply[t] = NoReply
    /\ \E r \in SecretReplies(op[t].key) \ {Cancelled} :
          /\ r.status = "ok" => (remote # Absent /\ r.payload.secret_value = remote)
          /\ reply' = [reply EXCEPT ![t] = r]
    /\ UNCHANGED <<inst, cache, now, pc, op, result, remoteCalls, remote>>

\* lines 284-291 and 357-364: the remote applies the create_secret_by_name
\* or update_secret_by_name of a suspended write (a create needs the name
\* to be free, an update needs the secret to exist), or answers with an
\* error and applies nothing
write_served(t) ==
    /\ pc[t] = "await"
    /\ op[t].kind \in {"create_secret", "update_secret"}
    /\ reply[t] = NoReply
    /\ \/ /\ (op[t].kind = "create_secret") <=> (remote = Absent)
          /\ remote' = op[t].secret_value
          /\ reply' = [reply EXCEPT ![t] =
                          IF op[t].kind = "create_secret"
                          THEN [status |-> "ok",
                                payload |-> [id |-> "secret_123", name |-> op[t].key]]
                          ELSE [status |-> "ok", payload |-> Empty]]
       \/ /\ remote' = remote
          /\ reply' = [reply EXCEPT ![t] = RemoteError]
    /\ UNCHANGED <<inst, cache, now, pc, op, result, remoteCalls>>

NextRace ==
    \/ \E t \in Callers :
           get(t, NameA, Empty, Empty, Empty, Empty, Empty) /\ Within(MaxCalls)
    \/ \E t \in Callers : get_hit(t)
    \/ \E t \in Callers : get_served(t)
    \/ \E t \in Callers : reply[t] # NoReply /\ get_resume(t, reply[t])
    \/ \E t \in Callers :
           create_secret(t, NameA, "v2", Empty, Empty, Empty) /\ Within(MaxCalls)
    \/ \E t \in Callers :
           update_secret(t, NameA, "v2", Empty, Empty, Empty, Empty) /\ Within(MaxCalls)
    \/ \E t \in Callers : write_served(t)
    \/ \E t \in Callers : reply[t] # NoReply /\ create_secret_resume(t, reply[t])
    \/ \E t \in Callers : reply[t] # NoReply /\ update_secret_resume(t, reply[t])

SpecRace == InitRace /\ [][NextRace]_vars

----------------------------------------------------------------------------
(* Vocabulary of the properties, defined on the cache's contents and on    *)
(* the steps, independently of the operators above                         *)

IsPrefix(prefix, k) ==
    /\ Len(prefix) <= Len(k)
    /\ \A i \in 1..Len(prefix) : k[i] = prefix[i]

ScopeString(project, env, path) == project \o <<":">> \o env \o <<":">> \o path
KeyString(project, env, path, name) == ScopeString(project, env, path) \o <<":">> \o name

\* the project a call works on: its override, else the instance's default
ProjectOf(call) == IF call.project # Empty THEN call.project ELSE inst.project_id
\* the path a call sends to the remote: its override, else the instance's default
PathOf(call) == IF call.path # Empty THEN call.path ELSE inst.secret_path
KeyOfCall(call) == KeyString(ProjectOf(call), call.env, call.path, call.key)

Entries(c) == {c[i] : i \in 1..Len(c)}
\* key k has an entry that is not expired at time
Live(c, k, time) == \E e \in Entries(c) : e.key = k /\ time < e.expires
LiveEntries(c, time) == {e \in Entries(c) : time < e.expires}
\* key k maps to value v
Holds(c, k, v) == \E e \in Entries(c) : e.key = k /\ e.value = v

ReadKinds == {"get_all", "list_secrets", "secret_by_name"}
WriteKinds == {"create_secret", "update_secret"}

\* steps of caller t: a call gets past its project check; the subscript of
\* a cache hit; a call comes back from its await
Enters(t, kinds) == pc[t] = "idle" /\ pc'[t] # "idle" /\ op'[t].kind \in kinds
ReadsHit(t) == pc[t] = "hit" /\ pc'[t] = "idle"
Resumes(t, kinds) == pc[t] = "await" /\ pc'[t] = "idle" /\ op[t].kind \in kinds
Succeeds(t, kinds) == Resumes(t, kinds) /\ result'[t].status = "returned"
Fails(t, kinds) == Resumes(t, kinds) /\ result'[t].status = "raised"

----------------------------------------------------------------------------
(* C1..C10 *)

\* C1: a get whose key is in the cache and unexpired does not call the
\* remote (it goes to the cached entry, the number of remote calls stays),
\* and its read of the unexpired entry returns exactly the cached value.
CacheHitAvoidsRemote ==
    [][\A t \in Tasks :
        /\ (Enters(t, {"get"}) /\ Live(cache, KeyOfCall(op'[t]), now))
              => /\ pc'[t] = "hit"
                 /\ remoteCalls' = remoteCalls
                 /\ cache' = cache
        /\ (ReadsHit(t) /\ Live(cache, KeyOfCall(op[t]), now))
              => /\ result'[t].status = "returned"
                 /\ Holds(cache, KeyOfCall(op[t]), result'[t].value)
                 /\ remoteCalls' = remoteCalls
                 /\ cache' = cache]_vars

\* a get has found its key in the cache, which was filled by a remote call
CacheHitWitness ==
    \E t \in Tasks :
        /\ pc[t] = "hit"
        /\ Live(cache, KeyOfCall(op[t]), now)
        /\ remoteCalls = 1

\* C2, as claimed: a value fetched on a miss stays retrievable under its key
\* (every later get returns it without a remote call) until its TTL elapses.
FetchedValueServedUntilTTL ==
    [][\A e \in Entries(cache) :
          now' < e.expires => Holds(cache', e.key, e.value)]_vars

\* the entries a successful write of `call` removes: those under the
\* "project:env:" prefix
InWrittenPrefix(call, e) == IsPrefix(ScopeString(ProjectOf(call), call.env, Empty), e.key)

\* C2, amended: a successful missed get stores the fetched value under its
\* key with expiry now + ttl; an unexpired entry stays in the cache with its
\* value across every step other than a successful write to its
\* project and environment and an insertion that replaces the key or finds
\* the cache full; and a get on a key with an unexpired entry returns the
\* entry's value without a remote call.
CacheMissPopulates ==
    [][\A t \in Tasks :
        /\ Succeeds(t, {"get"})
              => \E e \in Entries(cache') :
                    /\ e.key = KeyOfCall(op[t])
                    /\ e.value = result'[t].value
                    /\ e.expires = now + ttl
        /\ \A e \in LiveEntries(cache, now') :
              \/ Holds(cache', e.key, e.value)
              \/ Succeeds(t, WriteKinds) /\ InWrittenPrefix(op[t], e)
              \/ Succeeds(t, {"get"}) /\ (e.key = KeyOfCall(op[t]) \/ Len(cache) >= maxsize)
        /\ (Enters(t, {"get"}) /\ Live(cache, KeyOfCall(op'[t]), now))
              => pc'[t] = "hit" /\ remoteCalls' = remoteCalls
        /\ (ReadsHit(t) /\ Live(cache, KeyOfCall(op[t]), now))
              => Holds(cache, KeyOfCall(op[t]), result'[t].value)]_vars

\* the second get of a key finds the value the first one fetched
CacheMissPopulatesWitness ==
    \E t \in Tasks :
        /\ pc[t] = "hit"
        /\ result[t] = NoResult
        /\ remoteCalls = 1
        /\ \E e \in LiveEntries(cache, now) :
              e.key = KeyOfCall(op[t]) /\ e.expires > ttl

\* C3: right after a successful create_secret or update_secret for
\* (P, E, path) the cache holds no unexpired entry whose key begins with
\* "P:E:<path or default path>" or with "P:E:", whatever its secret name.
InvalidationRemovesScope ==
    [][\A t \in Tasks :
        Succeeds(t, WriteKinds)
           => \A e \in LiveEntries(cache', now') :
                 /\ ~IsPrefix(ScopeString(ProjectOf(op[t]), op[t].env, PathOf(op[t])), e.key)
                 /\ ~IsPrefix(ScopeString(ProjectOf(op[t]), op[t].env, Empty), e.key)]_vars

\* a write is in flight while the cache holds an unexpired entry of its
\* empty-path scope under another secret name
InvalidationWitness ==
    \E t \in Tasks :
        /\ pc[t] = "await"
        /\ op[t].kind \in WriteKinds
        /\ \E e \in LiveEntries(cache, now) :
              /\ IsPrefix(ScopeString(ProjectOf(op[t]), op[t].env, Empty), e.key)
              /\ e.key # KeyString(ProjectOf(op[t]), op[t].env, Empty, op[t].key)
              /\ e.key = KeyString(ProjectOf(op[t]), op[t].env, Empty, NameB)

\* the (project, env, path, name) tuples the callers read and write
Tuples == {ProjP, ProjQ} \X {dev, prod} \X {Empty, Slash, PathA} \X {NameA, NameB}

\* C4, as claimed: a successful create_secret or update_secret for
\* (P, E, path) leaves the entry of every tuple of another scope, one that
\* is neither (P, E, path or default) nor (P, E, ""), in the cache with its
\* value.
InvalidationLeavesOtherScopes ==
    [][\A t \in Tasks :
        Succeeds(t, WriteKinds)
           => \A u \in Tuples :
                 ( /\ <<u[1], u[2], u[3]>> # <<ProjectOf(op[t]), op[t].env, PathOf(op[t])>>
                   /\ <<u[1], u[2], u[3]>> # <<ProjectOf(op[t]), op[t].env, Empty>>
                   /\ Live(cache, KeyString(u[1], u[2], u[3], u[4]), now) )
                 => \E e \in Entries(cache) :
                       /\ e.key = KeyString(u[1], u[2], u[3], u[4])
                       /\ e \in Entries(cache')]_vars

\* C5: an operation called when neither its project argument nor the
\* instance's project is set raises ValueError at once: it never gets to the
\* cache lookup or to a remote call, and the cache and the number of remote
\* calls are as before.
MissingProjectFailsClosed ==
    [][\A t \in Tasks :
        /\ (pc[t] = "idle" /\ pc'[t] # "idle")
              => (op'[t].project # Empty \/ inst.project_id # Empty)
        /\ (pc[t] = "idle" /\ pc'[t] = "idle" /\ result'[t] # result[t])
              => /\ result'[t].status = "raised"
                 /\ result'[t].error = "ValueError"
                 /\ result'[t].call.project = Empty
                 /\ inst.project_id = Empty
                 /\ cache' = cache
                 /\ remoteCalls' = remoteCalls
                 /\ op' = op]_vars

\* each of the six operations has raised ValueError for want of a project,
\* get_all while the cache held an entry
MissingProjectWitness ==
    \E t \in Tasks :
        /\ result[t].status = "raised"
        /\ result[t].error = "ValueError"
        /\ result[t].kind = "get_all"
        /\ cache # <<>>

\* C6: when the remote fetch of a missed get fails or is cancelled, the get
\* raises that error and the cache is as before the resumption (nothing is
\* stored); and a get whose key has no unexpired entry always calls the
\* remote.
FailuresAreNotCached ==
    [][\A t \in Tasks :
        /\ Fails(t, {"get"})
              => /\ result'[t].error \in {"RemoteError", "CancelledError"}
                 /\ cache' = cache
        /\ (Enters(t, {"get"}) /\ ~Live(cache, KeyOfCall(op'[t]), now))
              => /\ pc'[t] = "await"
                 /\ remoteCalls' = remoteCalls + 1]_vars

\* the only remote call so far was a get's, it was cancelled, and the cache
\* is empty
FailuresAreNotCachedWitness ==
    \E t \in Tasks :
        /\ result[t].status = "raised"
        /\ result[t].kind = "get"
        /\ result[t].error = "CancelledError"
        /\ remoteCalls = 1
        /\ cache = <<>>

\* C7: when the remote call of create_secret or update_secret fails, the
\* error is raised and the cache is exactly as before.
FailedWriteKeepsCache ==
    [][\A t \in Tasks :
        Fails(t, WriteKinds)
           => /\ result'[t].error \in {"RemoteError", "CancelledError"}
              /\ cache' = cache]_vars

\* a write has failed and the cache still holds an entry
FailedWriteWitness ==
    \E t \in Tasks :
        /\ result[t].status = "raised"
        /\ result[t].kind \in WriteKinds
        /\ result[t].error = "RemoteError"
        /\ \E e \in Entries(cache) : IsPrefix(ScopeString(ProjP, dev, Empty), e.key)

\* C8: an entry is stamped with expires = T + ttl when it is inserted at T;
\* a get at a time >= T + ttl does not use it but calls the remote, and a
\* cache hit returns a value only from an entry with now < T + ttl.
TTLExpiry ==
    [][\A t \in Tasks :
        /\ Succeeds(t, {"get"})
              => \E e \in Entries(cache') :
                    e.key = KeyOfCall(op[t]) /\ e.expires = now + ttl
        /\ (Enters(t, {"get"}) /\ ~Live(cache, KeyOfCall(op'[t]), now))
              => pc'[t] = "await" /\ remoteCalls' = remoteCalls + 1
        /\ (ReadsHit(t) /\ result'[t].status = "returned")
              => \E e \in Entries(cache) :
                    /\ e.key = KeyOfCall(op[t])
                    /\ e.value = result'[t].value
                    /\ now < e.expires]_vars

\* a get is fetching a key whose entry, inserted at 0, is still in the store
\* at time ttl
TTLExpiryWitness ==
    \E t \in Tasks :
        /\ pc[t] = "await"
        /\ op[t].kind = "get"
        /\ now = ttl
        /\ \E e \in Entries(cache) : e.key = KeyOfCall(op[t]) /\ e.expires = ttl

\* C9: the cache never holds more than maxsize entries.
CapacityBound == Len(cache) <= maxsize

\* the cache is full after more than maxsize remote calls
CapacityWitness == Len(cache) = maxsize /\ remoteCalls > maxsize

\* what the remote can send for a record or a listing, and the complete
\* records among those of a listing
RemoteRecords == {r.payload : r \in {x \in AllSecretReplies : x.status = "ok"}}
RemoteListings == {r.payload : r \in {x \in ListReplies : x.status = "ok"}}
CompleteRecords ==
    {x \in ListRecords : "secret_key" \in DOMAIN x /\ "secret_value" \in DOMAIN x}

\* the result of a bulk or full-record read is made of what the remote sent
FromRemote(kind, value) ==
    CASE kind = "secret_by_name" -> value \in RemoteRecords
      [] kind = "list_secrets" -> value \in RemoteListings
      [] kind = "get_all" ->
            \A n \in DOMAIN value :
               \E x \in CompleteRecords :
                  x.secret_key = n /\ value[n] = <<"SecretStr", x.secret_value>>

\* C10: get_all, list_secrets and secret_by_name always call the remote,
\* whatever the cache holds, and leave the cache as it is when they start
\* and when they come back, with a result or with an error; what they
\* return is made of what the remote sent.
BulkReadsBypassCache ==
    [][\A t \in Tasks :
        /\ Enters(t, ReadKinds)
              => /\ pc'[t] = "await"
                 /\ remoteCalls' = remoteCalls + 1
                 /\ cache' = cache
        /\ Resumes(t, ReadKinds)
              => /\ cache' = cache
                 /\ remoteCalls' = remoteCalls
                 /\ result'[t].status = "returned"
                       => FromRemote(op[t].kind, result'[t].value)]_vars

\* secret_by_name is calling the remote for a secret whose value is cached
BulkReadsWitness ==
    \E t \in Tasks :
        /\ pc[t] = "await"
        /\ op[t].kind = "secret_by_name"
        /\ Live(cache, KeyOfCall(op[t]), now)

----------------------------------------------------------------------------
(* C11..C20 *)

\* the positions of the records of listing l that have a name and a value
Complete(l) ==
    {i \in 1..Len(l) : "secret_key" \in DOMAIN l[i] /\ "secret_value" \in DOMAIN l[i]}

\* C11: when the listing succeeds, get_all returns the mapping whose names
\* are exactly those of the returned records that have a name and a value,
\* each with the value of such a record (the empty mapping for an empty
\* listing); when the listing fails or is cancelled, get_all raises that
\* failure and returns no mapping at all.
GetAllIsAllOrNothing ==
    [][\A t \in Tasks :
        Resumes(t, {"get_all"})
           => IF reply'[t].status = "ok"
              THEN LET l == reply'[t].payload
                       mapping == result'[t].value
                   IN  /\ result'[t].status = "returned"
                       /\ DOMAIN mapping = {l[i].secret_key : i \in Complete(l)}
                       /\ \A n \in DOMAIN mapping :
                              \E i \in Complete(l) :
                                 /\ l[i].secret_key = n
                                 /\ mapping[n] = <<"SecretStr", l[i].secret_value>>
                       /\ (l = <<>>) => (DOMAIN mapping = {})
              ELSE /\ result'[t].status = "raised"
                   /\ result'[t].error \in {"RemoteError", "CancelledError"}
                   /\ "value" \notin DOMAIN result'[t]]_vars

\* get_all has returned a one-name mapping for a listing of two records,
\* one of them without a value
GetAllWitness ==
    \E t \in Tasks :
        /\ result[t].status = "returned"
        /\ result[t].kind = "get_all"
        /\ reply[t].status = "ok"
        /\ Len(reply[t].payload) = 2
        /\ Complete(reply[t].payload) = {2}
        /\ "secret_value" \notin DOMAIN reply[t].payload[1]
        /\ DOMAIN result[t].value = {NameA}

\* the credentials a get passes, if any
Overrides(call) == call.client_id # Empty \/ call.client_secret # Empty

\* C12: a get with a credentials override sends its remote call through an
\* SDK object made for that call from the override (each missing half taken
\* from the instance's default), every other call goes through the
\* instance's own client, and no step changes the instance: its client,
\* default credentials, project, environment and path stay as constructed.
CredentialsNotRetained ==
    [][/\ inst' = inst
       /\ inst.client.owner = "instance"
       /\ inst.client.client_id = inst.default_client_id
       /\ inst.client.client_secret = inst.default_client_secret
       /\ \A t \in Tasks :
             /\ (Enters(t, {"get"}) /\ pc'[t] = "await")
                   => LET sdk == op'[t].request.sdk
                          call == op'[t]
                      IN  IF Overrides(call)
                          THEN /\ sdk.owner = "call"
                               /\ sdk.client_id =
                                     (IF call.client_id # Empty THEN call.client_id
                                      ELSE inst.default_client_id)
                               /\ sdk.client_secret =
                                     (IF call.client_secret # Empty THEN call.client_secret
                                      ELSE inst.default_client_secret)
                          ELSE sdk = inst.client
             /\ Enters(t, ReadKinds \cup WriteKinds)
                   => op'[t].request.sdk = inst.client]_vars

\* after an earlier remote call, a get with a client_id override is in
\* flight on an SDK object of its own while the instance keeps its client
CredentialsWitness ==
    \E t \in Tasks :
        /\ pc[t] = "await"
        /\ op[t].kind = "get"
        /\ Overrides(op[t])
        /\ op[t].request.sdk.client_id = <<"id2">>
        /\ op[t].request.sdk # inst.client
        /\ inst.client.client_id = <<"id1">>
        /\ remoteCalls = 2

AllKinds == {"get"} \cup ReadKinds \cup WriteKinds

\* C13: the remote call of every operation receives as project the
\* project argument if given, else the instance's project; as environment
\* the env argument if given, else "dev" (never the instance's environment
\* slug); as path the path argument if non-empty, else the instance's
\* secret path, which is "/" when INFISICAL_SECRET_PATH is not set; and
\* list_secrets called with the flags of its signature sends
\* expand_secret_references = true, view_secret_value = true,
\* recursive = false, include_imports = true and tag_filters = [].
ScopeResolution ==
    [][\A t \in Tasks :
        /\ Enters(t, AllKinds)
              => LET call == op'[t]
                     request == op'[t].request
                 IN  /\ pc'[t] = "await" => remoteCalls' = remoteCalls + 1
                     /\ pc'[t] = "await" =>
                           /\ request.project_id =
                                 (IF call.project # <<>> THEN call.project ELSE inst.project_id)
                           /\ request.environment_slug =
                                 (IF call.env_arg # <<>> THEN call.env_arg ELSE <<"d", "e", "v">>)
                           /\ request.secret_path =
                                 (IF call.path # <<>> THEN call.path ELSE inst.secret_path)
        /\ \A environ \in Environs :
              /\ inst = LoadEnv(<<>>, <<>>, environ)
              /\ "INFISICAL_SECRET_PATH" \notin DOMAIN environ
              => inst.secret_path = <<"/">>
        /\ ( /\ Enters(t, {"list_secrets"})
             /\ op'[t].flags = [expand_secret_references |-> TRUE, view_secret_value |-> TRUE,
                                recursive |-> FALSE, include_imports |-> TRUE,
                                tag_filters |-> <<>>] )
              => LET request == op'[t].request
                 IN  /\ request.expand_secret_references = TRUE
                     /\ request.view_secret_value = TRUE
                     /\ request.recursive = FALSE
                     /\ request.include_imports = TRUE
                     /\ request.tag_filters = <<>>]_vars

\* list_secrets() with no argument at all is in flight on an instance
\* configured with project P and environment prod but no secret path: the
\* remote call is for P, "dev" and "/"
ScopeResolutionWitness ==
    \E t \in Tasks :
        /\ pc[t] = "await"
        /\ op[t].kind = "list_secrets"
        /\ op[t].project = <<>> /\ op[t].env_arg = <<>> /\ op[t].path = <<>>
        /\ inst.environment_slug = <<"p", "r", "o", "d">>
        /\ op[t].request.project_id = <<"P">>
        /\ op[t].request.environment_slug = <<"d", "e", "v">>
        /\ op[t].request.secret_path = <<"/">>
        /\ op[t].request.recursive = FALSE

WritesAreUnconditional ==
    [][\A t \in Tasks :
        /\ Enters(t, WriteKinds)
              => /\ pc'[t] = "await"
                 /\ remoteCalls' = remoteCalls + 1
                 /\ cache' = cache
                 /\ op'[t].request.api =
                       (IF op'[t].kind = "create_secret" THEN "create_secret_by_name"
                        ELSE "update_secret_by_name")
        /\ (pc[t] = "idle" /\ pc'[t] = "idle" /\ result'[t] # result[t])
              => /\ result'[t].status = "raised"
                 /\ result'[t].error = "ValueError"
                 /\ result'[t].call.project = <<>>
                 /\ inst.project_id = <<>>
        /\ Resumes(t, WriteKinds) => remoteCalls' = remoteCalls
        /\ Succeeds(t, {"create_secret"})
              => /\ reply'[t].status = "ok"
                 /\ result'[t].value = reply'[t].payload]_vars

\* create_secret is calling the remote for a secret whose value is cached
WritesWitness ==
    \E t \in Tasks :
        /\ pc[t] = "await"
        /\ op[t].kind = "create_secret"
        /\ op[t].request.api = "create_secret_by_name"
        /\ Live(cache, KeyOfCall(op[t]), now)

\* C16: when _SDK(...) fails in the constructor, the constructor raises
\* that error in the same step and returns no object; it does not try
\* again, and with no object nothing else ever happens: no operation
\* starts, the cache and the count of remote calls stay as they were.  An
\* object exists only after a construction whose _SDK(...) succeeded, and
\* then it has its client.
ConstructionFailureIsFatal ==
    [][/\ inst # ConstructionFailed
       /\ inst = NotConstructed
             => \E t \in Tasks :
                   /\ reply'[t].status \in {"ok", "error"}
                   /\ reply'[t].status = "error"
                         => /\ result'[t].status = "raised"
                            /\ result'[t].kind = "__init__"
                            /\ inst' = ConstructionFailed
                   /\ reply'[t].status = "ok"
                         => /\ result'[t].status = "returned"
                            /\ "client" \in DOMAIN inst'
                            /\ inst'.client.owner = "instance"
                   /\ <<pc', op', cache', remoteCalls'>> = <<pc, op, cache, remoteCalls>>
       /\ inst # NotConstructed => inst' = inst]_vars

\* the constructor has raised: there is no object and nothing was called
ConstructionFailureWitness ==
    \E t \in Tasks :
        /\ inst = ConstructionFailed
        /\ result[t].status = "raised"
        /\ result[t].kind = "__init__"
        /\ reply[t].status = "error"
        /\ remoteCalls = 0
        /\ pc[t] = "idle"

\* C17: a get whose key has no unexpired entry fetches from the remote
\* even while another get of the same key is being fetched (no
\* de-duplication); every get that completes with a value leaves that value
\* in the cache under its key, replacing what an earlier get wrote, and
\* nothing else puts a value in the cache: after two such gets the resident
\* value is that of the one that completed last.
NoSingleFlightLastWriteWins ==
    [][/\ \A t \in Callers :
             /\ (Enters(t, {"get"}) /\ ~Live(cache, KeyOfCall(op'[t]), now))
                   => /\ pc'[t] = "await"
                      /\ remoteCalls' = remoteCalls + 1
             /\ Succeeds(t, {"get"})
                   => \A e \in Entries(cache') :
                         e.key = KeyOfCall(op[t]) => e.value = result'[t].value
             /\ Succeeds(t, {"get"}) => Live(cache', KeyOfCall(op[t]), now')
       /\ \A e \in Entries(cache') \ Entries(cache) :
             \E t \in Callers :
                /\ Succeeds(t, {"get"})
                /\ e.key = KeyOfCall(op[t])
                /\ e.value = result'[t].value]_vars

\* two gets of the same key both missed and both fetched, one got "v1" and
\* the other "v2", and the cache holds one entry
LastWriteWinsWitness ==
    /\ \A t \in Callers : result[t].status = "returned" /\ result[t].kind = "get"
    /\ result["t1"].value # result["t2"].value
    /\ remoteCalls = 2
    /\ Len(cache) = 1
    /\ \E t \in Callers : cache[1].value = result[t].value

\* C18: an invocation issues at most one remote call: one when it reaches
\* its await, none when it reads a cache hit, and none when its call comes
\* back, with a value or with an error, after which it is over (no retry).
\* While a caller is suspended at its remote call, another caller can start
\* any operation, do the cache read of its hit, and complete its own call.
OneRoundTripNoBlocking ==
    [][\A t \in Callers :
        /\ Enters(t, AllKinds)
              => remoteCalls' = remoteCalls + (IF pc'[t] = "await" THEN 1 ELSE 0)
        /\ ReadsHit(t) => remoteCalls' = remoteCalls
        /\ (pc[t] = "await" /\ pc'[t] # "await")
              => /\ pc'[t] = "idle"
                 /\ remoteCalls' = remoteCalls
                 /\ result'[t].status \in {"returned", "raised"}
        /\ (pc[t] = "await" /\ pc'[t] = "await") => op'[t] = op[t]
        /\ \A u \in Callers \ {t} :
              pc[t] = "await"
                 => /\ pc[u] = "idle"
                       => /\ ENABLED get(u, NameA, Empty, Empty, Empty, Empty, Empty)
                          /\ ENABLED get_all(u, Empty, Empty, Empty)
                          /\ ENABLED list_secrets(u, Empty, Empty, Empty, DefaultFlags)
                          /\ ENABLED create_secret(u, NameA, "w", Empty, Empty, Empty)
                          /\ ENABLED update_secret(u, NameA, "w", Empty, Empty, Empty, Empty)
                          /\ ENABLED secret_by_name(u, NameA, Empty, Empty, Empty)
                    /\ pc[u] = "hit" => ENABLED get_hit(u)
                    /\ pc[u] = "await"
                       => ENABLED (\/ \E r \in AllSecretReplies :
                                        get_resume(u, r) \/ secret_by_name_resume(u, r)
                                   \/ \E r \in ListReplies :
                                        get_all_resume(u, r) \/ list_secrets_resume(u, r)
                                   \/ \E r \in AllCreateReplies : create_secret_resume(u, r)
                                   \/ \E r \in UpdateReplies : update_secret_resume(u, r))]_vars

\* while one caller is suspended in a write, the other has started a get,
\* found its key in the cache and is about to read it
NoBlockingWitness ==
    \E t \in Callers, u \in Callers :
        /\ pc[t] = "await"
        /\ op[t].kind \in WriteKinds
        /\ pc[u] = "hit"
        /\ Live(cache, KeyOfCall(op[u]), now)

\* C19, as claimed: get takes the cached branch only for a key with an
\* unexpired entry, and the read that follows a successful membership
\* check returns the cached value and never fails, also when the entry
\* reaches its TTL between the check and the read.
MembershipAgreesWithRead ==
    [][\A t \in Tasks :
        /\ (Enters(t, {"get"}) /\ pc'[t] = "hit") => Live(cache, KeyOfCall(op'[t]), now)
        /\ ReadsHit(t)
              => /\ result'[t].status = "returned"
                 /\ Holds(cache, KeyOfCall(op[t]), result'[t].value)]_vars

\* the example of the claim: "test_project:dev::TEST_SECRET"
ExampleKey ==
    <<"t", "e", "s", "t", "_", "p", "r", "o", "j", "e", "c", "t", ":", "d", "e", "v",
      ":", ":", "T", "E", "S", "T", "_", "S", "E", "C", "R", "E", "T">>

\* C20: the key under which get looks up and stores is project ":" env ":"
\* path ":" name, with the project resolved (argument, else the instance's),
\* the env argument ("dev" when none is passed) and the path argument as
\* given, an empty path staying empty rather than becoming the default
\* path; ("test_project", "dev", "", "TEST_SECRET") gives
\* "test_project:dev::TEST_SECRET".
CacheKeyFormat ==
    [][\A t \in Tasks :
        LET call == IF pc[t] = "idle" THEN op'[t] ELSE op[t]
            K == (IF call.project # <<>> THEN call.project ELSE inst.project_id)
                    \o <<":">> \o (IF call.env_arg # <<>> THEN call.env_arg ELSE <<"d", "e", "v">>)
                    \o <<":">> \o call.path
                    \o <<":">> \o call.key
        IN  /\ (Enters(t, {"get"}) /\ pc'[t] = "hit") => Live(cache, K, now)
            /\ (Enters(t, {"get"}) /\ pc'[t] = "await") => ~Live(cache, K, now)
            /\ Succeeds(t, {"get"})
                  => /\ Holds(cache', K, result'[t].value)
                     /\ \A e \in Entries(cache') \ Entries(cache) : e.key = K
            /\ cache_key(<<"t", "e", "s", "t", "_", "p", "r", "o", "j", "e", "c", "t">>,
                         <<"d", "e", "v">>, <<>>,
                         <<"T", "E", "S", "T", "_", "S", "E", "C", "R", "E", "T">>) = ExampleKey]_vars

\* get("A") with no path, on the instance of project P, has stored its
\* value under "P:dev::A"
CacheKeyWitness ==
    \E t \in Tasks :
        /\ result[t].status = "returned"
        /\ result[t].kind = "get"
        /\ Holds(cache, <<"P", ":", "d", "e", "v", ":", ":", "A">>, result[t].value)
        /\ inst.secret_path = <<"/">>

----------------------------------------------------------------------------
(* C21..C26 *)

\* the tuple a get works on: resolved project, environment, path as given
\* and secret name
TupleOf(call) == <<ProjectOf(call), call.env, call.path, call.key>>

\* the tuples whose cache key is k
TuplesOfKey(k) == {u \in Tuples : cache_key(u[1], u[2], u[3], u[4]) = k}

\* C21: no component of the tuples read and written contains ":"; the cache
\* key of a get's tuple is then the key of no other tuple; a get stores its
\* value under a key that belongs to its own tuple only, and the value a
\* cache hit returns comes from an entry whose key belongs to the get's own
\* tuple only, never from an entry cached for another tuple.
NoCrossTupleHits ==
    [][\A t \in Tasks :
          (Succeeds(t, {"get"}) \/ (ReadsHit(t) /\ result'[t].status = "returned"))
             => LET u == TupleOf(op[t])
                IN  /\ u \in Tuples
                    /\ \A i \in 1..4 : \A j \in 1..Len(u[i]) : u[i][j] # ":"
                    /\ \A v \in Tuples :
                          cache_key(v[1], v[2], v[3], v[4]) = cache_key(u[1], u[2], u[3], u[4])
                             => v = u
                    /\ Succeeds(t, {"get"})
                          => /\ \A e \in Entries(cache') \ Entries(cache) :
                                   TuplesOfKey(e.key) = {u}
                             /\ \E e \in Entries(cache') :
                                   /\ TuplesOfKey(e.key) = {u}
                                   /\ e.value = result'[t].value
                    /\ ReadsHit(t)
                          => \E e \in Entries(cache) :
                                /\ TuplesOfKey(e.key) = {u}
                                /\ e.value = result'[t].value
                                /\ \A f \in Entries(cache) : f.key = e.key => f = e]_vars

\* a get has found its key in a cache that holds the entries of two tuples
NoCrossTupleWitness ==
    \E t \in Tasks :
        /\ pc[t] = "hit"
        /\ Len(cache) = 2
        /\ cache[1].key # cache[2].key
        /\ Live(cache, KeyOfCall(op[t]), now)

\* C22, as claimed: once every call has finished, the cache holds no value
\* that was fetched before a write was applied, that is, every unexpired
\* entry of the secret holds the content the remote has now (a value that
\* differs from it was fetched by a get that was suspended while the write
\* that replaced it completed).
InvalidationNotUndone ==
    (\A t \in Callers : pc[t] = "idle")
       => \A e \in LiveEntries(cache, now) : e.value = SecretStr(remote)

\* C22, amended: a write that completes removes the entries its scope has
\* in the cache at that moment and leaves a suspended get as it is; the
\* remote answers a get with the content it has at that moment; and the get,
\* when it resumes, stores and returns the value it was answered with,
\* whatever the remote holds by then and whatever has completed meanwhile.
ResumedGetStoresWhatItFetched ==
    [][\A t \in Callers :
          /\ Succeeds(t, WriteKinds)
                => /\ \A e \in LiveEntries(cache', now') :
                         ~IsPrefix(ScopeString(ProjectOf(op[t]), op[t].env, Empty), e.key)
                   /\ \A u \in Callers \ {t} :
                         pc'[u] = pc[u] /\ op'[u] = op[u] /\ reply'[u] = reply[u]
          /\ (pc[t] = "await" /\ op[t].kind = "get" /\ reply[t] = NoReply
                /\ reply'[t].status = "ok")
                => reply'[t].payload.secret_value = remote
          /\ Succeeds(t, {"get"})
                => /\ reply[t].status = "ok"
                   /\ Holds(cache', KeyOfCall(op[t]), SecretStr(reply[t].payload.secret_value))
                   /\ Live(cache', KeyOfCall(op[t]), now')
                   /\ result'[t].value = SecretStr(reply[t].payload.secret_value)]_vars

\* both callers have finished, the update of one succeeded while the get of
\* the other was suspended, and the cache holds the value the get returned,
\* which is not the remote's content any more
UndoneInvalidationWitness ==
    \E t \in Callers, u \in Callers :
        /\ \A c \in Callers : pc[c] = "idle"
        /\ result[u] = Returned("update_secret", Empty)
        /\ result[t].status = "returned"
        /\ result[t].kind = "get"
        /\ result[t].value # SecretStr(remote)
        /\ Holds(cache, KeyString(ProjP, dev, Empty, NameA), result[t].value)
        /\ Live(cache, KeyString(ProjP, dev, Empty, NameA), now)

\* C23: an entry enters the cache only when a get comes back successfully
\* from its get_secret_by_name for (name, project, env, path-or-default):
\* the entry is under the get's key project:env:path:name and holds the
\* value of that reply; a create_secret or update_secret that comes back
\* adds no entry and changes none (it can only remove entries), and every
\* other step leaves the cache as it is.
CacheProvenance ==
    [][/\ \A e \in Entries(cache') \ Entries(cache) :
             \E t \in Tasks :
                /\ Succeeds(t, {"get"})
                /\ reply'[t].status = "ok"
                /\ op[t].request.api = "get_secret_by_name"
                /\ op[t].request.secret_name = op[t].key
                /\ op[t].request.project_id = ProjectOf(op[t])
                /\ op[t].request.environment_slug = op[t].env
                /\ op[t].request.secret_path = PathOf(op[t])
                /\ reply'[t].payload.secret_key = op[t].key
                /\ e.key = KeyOfCall(op[t])
                /\ e.value = SecretStr(reply'[t].payload.secret_value)
       /\ \A t \in Tasks :
             /\ Resumes(t, WriteKinds) => Entries(cache') \subseteq Entries(cache)
             /\ (Enters(t, AllKinds) \/ Resumes(t, ReadKinds) \/ Fails(t, {"get"}))
                   => cache' = cache]_vars

\* the cache holds, under the key of the get that has just returned, the
\* value of the reply that get came back with
ProvenanceWitness ==
    \E t \in Tasks :
        /\ result[t].status = "returned"
        /\ result[t].kind = "get"
        /\ reply[t].status = "ok"
        /\ \E e \in Entries(cache) :
              /\ e.value = SecretStr(reply[t].payload.secret_value)
              /\ e.value = result[t].value
              /\ \E u \in Tuples : e.key = KeyString(u[1], u[2], u[3], reply[t].payload.secret_key)

\* C24: the key of a get is made of project, env, path and name, whatever
\* its credentials; a get with a credentials override whose key is cached
\* and unexpired makes no SDK object and no remote call and returns the
\* cached value, whoever cached it; a get with a credentials override
\* whose key is not cached sends its remote call through an SDK object made
\* from the override, and its value is stored under that same key.
CacheSharedAcrossCredentials ==
    [][\A t \in Tasks :
          /\ (Enters(t, {"get"}) /\ Overrides(op'[t]))
                => IF Live(cache, KeyOfCall(op'[t]), now)
                   THEN /\ pc'[t] = "hit"
                        /\ op'[t].request = Empty
                        /\ remoteCalls' = remoteCalls
                        /\ inst' = inst
                        /\ cache' = cache
                   ELSE /\ pc'[t] = "await"
                        /\ remoteCalls' = remoteCalls + 1
                        /\ op'[t].request.sdk.owner = "call"
                        /\ op'[t].request.sdk.client_id
                              = Or(op'[t].client_id, inst.default_client_id)
                        /\ op'[t].request.sdk.client_secret
                              = Or(op'[t].client_secret, inst.default_client_secret)
          /\ (ReadsHit(t) /\ Overrides(op[t]) /\ Live(cache, KeyOfCall(op[t]), now))
                => /\ result'[t].status = "returned"
                   /\ Holds(cache, KeyOfCall(op[t]), result'[t].value)
                   /\ remoteCalls' = remoteCalls
                   /\ inst' = inst
          /\ (Succeeds(t, {"get"}) /\ Overrides(op[t]))
                => Holds(cache', KeyString(ProjectOf(op[t]), op[t].env, op[t].path, op[t].key),
                         result'[t].value)]_vars

\* a get with a credentials override, which are not the instance's, has
\* found its key in the cache after one remote call was made in all
SharedCacheWitness ==
    \E t \in Tasks :
        /\ pc[t] = "hit"
        /\ Overrides(op[t])
        /\ op[t].client_id # inst.default_client_id
        /\ op[t].request = Empty
        /\ Live(cache, KeyOfCall(op[t]), now)
        /\ remoteCalls = 1

\* the key of the same secret with the instance's default path written out
DefaultPathKey(call) == KeyString(ProjectOf(call), call.env, inst.secret_path, call.key)

\* C25: a get with path "" that misses asks the remote for the secret at
\* the instance's default path and, when it comes back, stores the value
\* under project:env::name (empty path component); a get for the same name
\* with the default path written out has another key, so while that key is
\* not cached it misses even if the entry of the empty path is there, asks
\* the remote for the same default path, and its value becomes a second
\* entry next to the first.
EmptyAndDefaultPathAreDistinctScopes ==
    [][\A t \in Tasks :
          /\ (Enters(t, {"get"}) /\ op'[t].path = Empty /\ pc'[t] = "await")
                => op'[t].request.secret_path = inst.secret_path
          /\ (Succeeds(t, {"get"}) /\ op[t].path = Empty)
                => /\ Holds(cache', KeyString(ProjectOf(op[t]), op[t].env, Empty, op[t].key),
                            result'[t].value)
                   /\ ~Live(cache, DefaultPathKey(op[t]), now)
                         => ~Live(cache', DefaultPathKey(op[t]), now')
          /\ (Enters(t, {"get"}) /\ op'[t].path = inst.secret_path
                /\ ~Live(cache, DefaultPathKey(op'[t]), now))
                => /\ DefaultPathKey(op'[t])
                         # KeyString(ProjectOf(op'[t]), op'[t].env, Empty, op'[t].key)
                   /\ pc'[t] = "await"
                   /\ remoteCalls' = remoteCalls + 1
                   /\ op'[t].request.secret_path = inst.secret_path
          /\ (Succeeds(t, {"get"}) /\ op[t].path = inst.secret_path)
                => /\ Holds(cache', DefaultPathKey(op[t]), result'[t].value)
                   /\ \A e \in LiveEntries(cache, now) :
                         e.key = KeyString(ProjectOf(op[t]), op[t].env, Empty, op[t].key)
                            => /\ e \in Entries(cache')
                               /\ Len(cache') >= 2]_vars

\* the cache holds two entries for one remote secret: one of the empty path
\* and one of the default path written out, each filled by its own remote
\* call
TwoScopesWitness ==
    \E u \in Tuples :
        /\ u[3] = Empty
        /\ u[1] = inst.project_id
        /\ Live(cache, KeyString(u[1], u[2], Empty, u[4]), now)
        /\ Live(cache, KeyString(u[1], u[2], inst.secret_path, u[4]), now)
        /\ Len(cache) = 2
        /\ remoteCalls = 2

====
